---- MODULE Spec2Model ----
(***************************************************************************)
(* Model of the MetadataWatcher plugin (src/main.ts): the baseline cache   *)
(* lastMetadataValues, the two event handlers onFileOpen and               *)
(* onMetadataChanged, the header pass and the command pass, and the        *)
(* header rewrite replaceHeaderWithMetadataValue.                          *)
(*                                                                         *)
(* Text (document lines, header patterns, stringified values) is a         *)
(* sequence of one-character strings.  Paths, field names and cache keys   *)
(* are strings, so that the key `${file.path}-${group.watchedField}` is    *)
(* the concatenation the code computes.  JavaScript runs one handler at a  *)
(* time between awaits, so every action below is the code between two      *)
(* suspension points of one handler invocation.                            *)
(***************************************************************************)
EXTENDS Integers, Sequences, FiniteSets, TLC

\* ------------------------------------------------------------------ bounds

\* Number of distinct truthy front-matter values the host may report.
NumValues == 2

ValueNames == <<"A", "B", "C", "D">>

\* ------------------------------------------------------------------ values

\* A front-matter value is a tagged scalar: <<"str", text>> or <<"num", text>>
\* (text = its decimal digits).  Strict inequality (!==) is inequality of the
\* tagged pair.  Undefined is what a missing key or cache entry reads as.
Str(t) == <<"str", t>>
Num(t) == <<"num", t>>
Undefined == <<"undefined", <<>>>>
EmptyString == Str(<<>>)
Zero == Num(<<"0">>)

TruthyValues == {Str(<<ValueNames[i]>>) : i \in 1..NumValues}

\* Truthy strings with a "$": a price, a "$$", a lone "$".
DollarValues == {Str(<<"$", "1">>), Str(<<"$", "$">>), Str(<<"$">>)}

\* Truthy strings with a "$" pattern that stands for text of the matched line.
MatchValues == {Str(<<"$", "&">>), Str(<<"$", "2">>)}
FalsyValues == {EmptyString, Zero, Undefined}

\* JavaScript truthiness of a scalar, as used by `metadata[group.watchedField]`
\* in a condition.
Truthy(v) == v \notin {Undefined, EmptyString, Zero}

\* Template-literal conversion `${valueToInsert}`.
ToText(v) == IF v = Undefined THEN <<"u","n","d","e","f","i","n","e","d">> ELSE v[2]

\* ------------------------------------------------------------ documents

P1 == "n.md"
P2 == "n.md-x.md"
Paths == {P1, P2}

F1 == "c"
F2 == "x.md-c"
F0 == ""
F3 == "p"
F4 == "q"

H1 == <<"#", "H">>
H2 == <<"#", "G">>

\* Document texts: a sequence of lines.
ContentWith == << <<"t">>, H1 \o <<" ", "x">>, H2, H1 \o <<" ", "y">> >>
ContentWithout == << <<"t">> >>

\* ------------------------------------------------------------ the cache

\* `${file.path}-${group.watchedField}`
Key(path, field) == path \o "-" \o field

CacheGet(cache, k) == IF k \in DOMAIN cache THEN cache[k] ELSE Undefined

CacheSet(cache, k, v) ==
    [x \in (DOMAIN cache) \cup {k} |-> IF x = k THEN v ELSE cache[x]]

EmptyCache == [x \in {} |-> Undefined]

\* ------------------------------------------------------------ metadata

\* `getFileCache(file)?.frontmatter`: absent, or a mapping from keys to values.
NoFrontmatter == [present |-> FALSE, fm |-> [x \in {} |-> Undefined]]
Frontmatter(f) == [present |-> TRUE, fm |-> f]

\* metadata[field]
Lookup(metadata, field) ==
    IF field \in DOMAIN metadata.fm THEN metadata.fm[field] ELSE Undefined

\* ------------------------------------------------------- header rewrite

\* `^(${header})` tried at the start of one line.  The header is used as the
\* pattern without escaping; of the pattern characters only "." (any
\* character) is modelled, every other character stands for itself.
MatchesAt(line, header) ==
    /\ Len(header) <= Len(line)
    /\ \A i \in 1..Len(header) : header[i] = "." \/ header[i] = line[i]

\* Flag "m" without "g": the first line, in document order, that matches
\* (0 when none does).
FirstMatch(content, header) ==
    LET hits == {j \in 1..Len(content) : MatchesAt(content[j], header)}
    IN IF hits = {} THEN 0 ELSE CHOOSE j \in hits : \A k \in hits : j <= k

Digits == <<"0", "1", "2", "3", "4", "5", "6", "7", "8", "9">>
IsDigit(ch) == \E d \in 1..10 : Digits[d] = ch
DigitVal(ch) == (CHOOSE d \in 1..10 : Digits[d] = ch) - 1

\* String.prototype.replace's expansion of the replacement text for a
\* pattern with two capture groups: $$, $&, $1, $2 (and $01, $02) are
\* substituted, any other "$" stands for itself.
RECURSIVE GetSubstitution(_, _, _, _, _)
GetSubstitution(t, i, matched, g1, g2) ==
    IF i > Len(t) THEN <<>>
    ELSE IF t[i] # "$" \/ i = Len(t)
         THEN <<t[i]>> \o GetSubstitution(t, i + 1, matched, g1, g2)
    ELSE LET n == t[i + 1]
             Group(k) == IF k = 1 THEN g1 ELSE g2
         IN CASE n = "$" -> <<"$">> \o GetSubstitution(t, i + 2, matched, g1, g2)
              [] n = "&" -> matched \o GetSubstitution(t, i + 2, matched, g1, g2)
              [] IsDigit(n) ->
                   IF /\ i + 2 <= Len(t)
                      /\ IsDigit(t[i + 2])
                      /\ 10 * DigitVal(n) + DigitVal(t[i + 2]) \in 1..2
                   THEN Group(10 * DigitVal(n) + DigitVal(t[i + 2]))
                            \o GetSubstitution(t, i + 3, matched, g1, g2)
                   ELSE IF DigitVal(n) \in 1..2
                   THEN Group(DigitVal(n)) \o GetSubstitution(t, i + 2, matched, g1, g2)
                   ELSE <<"$">> \o GetSubstitution(t, i + 1, matched, g1, g2)
              [] OTHER -> <<"$">> \o GetSubstitution(t, i + 1, matched, g1, g2)

\* content.replace(new RegExp(`^(${header})(.*)$`, "m"), `$1 ${valueToInsert}`)
replaceHeaderWithMetadataValue(content, header, valueToInsert) ==
    LET j == FirstMatch(content, header)
    IN IF j = 0 THEN content
       ELSE LET line == content[j]
                g1 == SubSeq(line, 1, Len(header))
                g2 == SubSeq(line, Len(header) + 1, Len(line))
                replacementText == <<"$", "1", " ">> \o ToText(valueToInsert)
            IN [content EXCEPT ![j] = GetSubstitution(replacementText, 1, line, g1, g2)]

\* ------------------------------------------------------------- settings

HeaderGroup(f, h, a) == [watchedField |-> f, header |-> h, active |-> a]
CommandGroup(f, c, a) == [watchedField |-> f, command |-> c, active |-> a]

\* The persisted rule lists loadSettings may find: no rule or one rule (any
\* watched field, active or not), or two active rules.
OneHeaderGroup == {<<>>} \cup {<<HeaderGroup(f, H1, a)>> : f \in {F1, F2, F0}, a \in BOOLEAN}
TwoHeaderGroups == {<<HeaderGroup(F1, H1, TRUE), HeaderGroup(g, H2, TRUE)>> : g \in {F1, F2}}

OneCommandGroup == {<<>>} \cup {<<CommandGroup(f, "cmd1", a)>> : f \in {F1, F2, F0}, a \in BOOLEAN}
TwoCommandGroups == {<<CommandGroup(F1, "cmd1", TRUE), CommandGroup(g, "cmd2", TRUE)>> : g \in {F1, F2}}

FieldsOf(groups) == {groups[i].watchedField : i \in 1..Len(groups)}

\* The configurations explored: every pair of lists of at most one rule, one
\* header rule with two command rules, and two header rules alone or with two
\* command rules on the same fields.
SettingsSet ==
    {[headerGroups |-> h, commandGroups |-> c] : h \in OneHeaderGroup, c \in OneCommandGroup}
    \cup {st \in {[headerGroups |-> h, commandGroups |-> c] :
                     h \in OneHeaderGroup, c \in TwoCommandGroups} :
            Cardinality(FieldsOf(st.headerGroups) \cup FieldsOf(st.commandGroups)) <= 2}
    \cup {[headerGroups |-> h, commandGroups |-> <<>>] : h \in TwoHeaderGroups}
    \cup {st \in {[headerGroups |-> h, commandGroups |-> c] :
                     h \in TwoHeaderGroups, c \in TwoCommandGroups} :
            st.headerGroups[2].watchedField = st.commandGroups[2].watchedField}

VARIABLES
    settings,            \* this.settings: [headerGroups, commandGroups]
    lastMetadataValues,  \* this.lastMetadataValues: key -> value
    vault,               \* the host's document store: path -> text
    calls                \* handler invocations started and not yet returned to the host

vars == <<settings, lastMetadataValues, vault, calls>>

\* The keys a handler can read from a snapshot: the watched fields.
WatchedFields == FieldsOf(settings.headerGroups) \cup FieldsOf(settings.commandGroups)

\* What the host may report for a key: a truthy value or a missing key, for
\* the key F1 also the falsy scalars, and for the keys F3 and F4 also strings
\* with a "$".
ValuesFor(f) ==
    IF f = F1 THEN TruthyValues \cup FalsyValues
    ELSE IF f = F2 THEN TruthyValues \cup {Undefined}
    ELSE IF f = F3 THEN TruthyValues \cup DollarValues \cup {Undefined}
    ELSE IF f = F4 THEN TruthyValues \cup DollarValues \cup MatchValues \cup {Undefined}
    ELSE {Str(<<ValueNames[1]>>), Undefined}

Snapshots ==
    {NoFrontmatter}
    \cup {Frontmatter(fm) :
            fm \in {g \in [WatchedFields -> TruthyValues \cup FalsyValues \cup DollarValues
                                                \cup MatchValues] :
                      \A f \in WatchedFields : g[f] \in ValuesFor(f)}}

\* ----------------------------------------------------- handler invocations

\* One invocation of onFileOpen or onMetadataChanged.  pc is where it is
\* suspended ("read": awaiting vault.read; "modify": awaiting vault.modify;
\* "commands": awaiting processHeaderGroups' promise) or how it ended
\* ("fulfilled", "rejected").  group, currentValue, fileContent and
\* updatedContent are the locals of processHeaderGroups.  The fields from
\* cache0 on record what the invocation found and did: the cache and the
\* document when it started, the header groups for which vault.read and
\* vault.modify were called, the command groups whose command was invoked,
\* and the call that failed.
NewCall(handler, file, metadata) ==
    [handler |-> handler, file |-> file, metadata |-> metadata,
     pc |-> "fulfilled", group |-> 0, currentValue |-> Undefined,
     fileContent |-> <<>>, updatedContent |-> <<>>,
     cache0 |-> lastMetadataValues, content0 |-> vault[file],
     reads |-> <<>>, writes |-> <<>>, executed |-> <<>>,
     failed |-> "none", failedAt |-> 0]

\* `group.active && metadata[group.watchedField]`
Watches(group, metadata) == group.active /\ Truthy(Lookup(metadata, group.watchedField))

\* updateLastMetadataValues: lines 46-50, over [...headerGroups, ...commandGroups].
RECURSIVE SeedLoop(_, _, _, _, _)
SeedLoop(groups, i, path, metadata, cache) ==
    IF i > Len(groups) THEN cache
    ELSE SeedLoop(groups, i + 1, path, metadata,
                  IF Watches(groups[i], metadata)
                  THEN CacheSet(cache, Key(path, groups[i].watchedField),
                                Lookup(metadata, groups[i].watchedField))
                  ELSE cache)

\* Mutant of updateLastMetadataValues: seeds only the entries that are absent
\* and keeps a baseline that is already known.
updateLastMetadataValues_KeepsKnown(path, metadata, cache) ==
    LET seeded == IF metadata.present
                  THEN SeedLoop(settings.headerGroups \o settings.commandGroups, 1, path,
                                metadata, cache)
                  ELSE cache
    IN [k \in DOMAIN seeded |-> IF k \in DOMAIN cache THEN cache[k] ELSE seeded[k]]

updateLastMetadataValues(path, metadata, cache) ==
    IF metadata.present
    THEN SeedLoop(settings.headerGroups \o settings.commandGroups, 1, path, metadata, cache)
    ELSE cache

\* Mutant of NextHeaderGroup: the comparison with the cache entry (line 67) is
\* dropped, every watched truthy field is due.
NextHeaderGroup_IgnoresCache(groups, from, path, metadata, cache) ==
    LET due == {j \in from..Len(groups) : Watches(groups[j], metadata)}
    IN IF due = {} THEN 0 ELSE CHOOSE j \in due : \A k \in due : j <= k

\* processHeaderGroups, lines 63-67, over the list `groups`: the first group
\* from index `from` on whose value differs from the cache entry (0: the loop
\* runs to its end).
NextHeaderGroup(groups, from, path, metadata, cache) ==
    LET due == {j \in from..Len(groups) :
                   /\ Watches(groups[j], metadata)
                   /\ Lookup(metadata, groups[j].watchedField)
                        # CacheGet(cache, Key(path, groups[j].watchedField))}
    IN IF due = {} THEN 0 ELSE CHOOSE j \in due : \A k \in due : j <= k

\* Mutant of HeaderLoop: the header pass ends after its first rewrite, the
\* groups after it are left to a later dispatch.
HeaderLoop_OneRewrite(call, from, cache) ==
    LET j == NextHeaderGroup(settings.headerGroups, from, call.file, call.metadata, cache)
    IN IF j = 0 \/ from > 1
       THEN [call EXCEPT !.pc = "commands", !.group = 0]
       ELSE [call EXCEPT !.pc = "read", !.group = j,
                         !.currentValue = Lookup(call.metadata, settings.headerGroups[j].watchedField),
                         !.reads = Append(@, j)]

\* processHeaderGroups from index `from` up to its next await: vault.read is
\* called for the next group that is due (line 68), or the loop ends and
\* onMetadataChanged awaits the pass (line 57).
HeaderLoop(call, from, cache) ==
    LET j == NextHeaderGroup(settings.headerGroups, from, call.file, call.metadata, cache)
    IN IF j = 0
       THEN [call EXCEPT !.pc = "commands", !.group = 0]
       ELSE [call EXCEPT !.pc = "read", !.group = j,
                         !.currentValue = Lookup(call.metadata, settings.headerGroups[j].watchedField),
                         !.reads = Append(@, j)]

\* processCommandGroups, lines 78-89, over the list `groups` from group i on.
\* `throwing` are the commands whose executeCommandById throws when invoked.
\* The result is the cache, the groups whose command was invoked, and the
\* group at which the pass was aborted by a throw (0: none).
RECURSIVE CommandLoop(_, _, _, _, _, _, _)
CommandLoop(groups, i, path, metadata, cache, executed, throwing) ==
    IF i > Len(groups)
    THEN [cache |-> cache, executed |-> executed, thrownAt |-> 0]
    ELSE LET group == groups[i]
             currentValue == Lookup(metadata, group.watchedField)
             previousValue == CacheGet(cache, Key(path, group.watchedField))
         IN IF ~Watches(group, metadata)
            THEN CommandLoop(groups, i + 1, path, metadata, cache, executed, throwing)
            ELSE IF currentValue # previousValue /\ previousValue # Undefined
            THEN IF group.command \in throwing
                 THEN [cache |-> cache, executed |-> Append(executed, i), thrownAt |-> i]
                 ELSE CommandLoop(groups, i + 1, path, metadata,
                                  CacheSet(cache, Key(path, group.watchedField), currentValue),
                                  Append(executed, i), throwing)
            ELSE CommandLoop(groups, i + 1, path, metadata,
                             CacheSet(cache, Key(path, group.watchedField), currentValue),
                             executed, throwing)

\* Mutant of processCommandGroups: the assignment of line 87 is dropped, the
\* pass compares and invokes but leaves the cache as it found it.
processCommandGroups_KeepsCache(path, metadata, cache, throwing) ==
    [CommandLoop(settings.commandGroups, 1, path, metadata, cache, <<>>, throwing)
        EXCEPT !.cache = cache]

processCommandGroups(path, metadata, cache, throwing) ==
    CommandLoop(settings.commandGroups, 1, path, metadata, cache, <<>>, throwing)

\* ---------------------------------------------------------------- actions

Init ==
    /\ settings \in SettingsSet
    /\ lastMetadataValues = EmptyCache
    /\ vault = [p \in Paths |-> IF p = P1 THEN ContentWith ELSE ContentWithout]
    /\ calls = <<>>

\* The host delivers "file-open": onFileOpen runs updateLastMetadataValues,
\* which has no suspension point.
onFileOpen(limit) ==
    /\ Len(calls) < limit
    /\ \E file \in DOMAIN vault, metadata \in Snapshots :
        /\ lastMetadataValues' = updateLastMetadataValues(file, metadata, lastMetadataValues)
        /\ calls' = Append(calls, NewCall("onFileOpen", file, metadata))
    /\ UNCHANGED <<settings, vault>>

\* Mutant of onMetadataChanged: the test `if (metadata)` (line 56) is dropped,
\* the passes run on an absent snapshot as on an empty one.
onMetadataChanged_NoMetadataTest(limit) ==
    /\ Len(calls) < limit
    /\ \E file \in DOMAIN vault, metadata \in Snapshots :
        calls' = Append(calls, HeaderLoop(NewCall("onMetadataChanged", file, metadata), 1,
                                          lastMetadataValues))
    /\ UNCHANGED <<settings, lastMetadataValues, vault>>

\* The host delivers "changed": onMetadataChanged up to its first await.
onMetadataChanged(limit) ==
    /\ Len(calls) < limit
    /\ \E file \in DOMAIN vault, metadata \in Snapshots :
        LET call == NewCall("onMetadataChanged", file, metadata)
        IN calls' = Append(calls, IF metadata.present
                                  THEN HeaderLoop(call, 1, lastMetadataValues)
                                  ELSE call)
    /\ UNCHANGED <<settings, lastMetadataValues, vault>>

\* `await this.processHeaderGroups(...)` (line 57) awaits a promise that is
\* settled by the handler's own code: its continuation is a job of the
\* promise job queue, which the engine empties before it runs the completion
\* of any file operation.  No invocation is waiting in that queue.
NoPromiseJobPending == \A k \in 1..Len(calls) : calls[k].pc # "commands"

\* Mutant of ReadSettles: the cache entry is overwritten (line 71) when
\* vault.modify is called, before its promise settles.
ReadSettles_CachesBeforeWrite ==
    \E i \in 1..Len(calls) :
        /\ NoPromiseJobPending
        /\ calls[i].pc = "read"
        /\ \/ LET fileContent == vault[calls[i].file]
                  group == settings.headerGroups[calls[i].group]
              IN /\ calls' = [calls EXCEPT ![i] =
                      [@ EXCEPT !.pc = "modify",
                                !.fileContent = fileContent,
                                !.updatedContent =
                                    replaceHeaderWithMetadataValue(fileContent, group.header,
                                                                   calls[i].currentValue),
                                !.writes = Append(@, calls[i].group)]]
                 /\ lastMetadataValues' =
                        CacheSet(lastMetadataValues, Key(calls[i].file, group.watchedField),
                                 calls[i].currentValue)
           \/ /\ calls' = [calls EXCEPT ![i] =
                    [@ EXCEPT !.pc = "rejected", !.failed = "read", !.failedAt = calls[i].group]]
              /\ UNCHANGED lastMetadataValues
        /\ UNCHANGED <<settings, vault>>

\* vault.read settles (line 68): the text is rewritten and vault.modify is
\* called (lines 69-70), or the rejection ends the handler.
ReadSettles ==
    \E i \in 1..Len(calls) :
        /\ NoPromiseJobPending
        /\ calls[i].pc = "read"
        /\ \/ LET fileContent == vault[calls[i].file]
                  group == settings.headerGroups[calls[i].group]
              IN calls' = [calls EXCEPT ![i] =
                    [@ EXCEPT !.pc = "modify",
                              !.fileContent = fileContent,
                              !.updatedContent =
                                  replaceHeaderWithMetadataValue(fileContent, group.header,
                                                                 calls[i].currentValue),
                              !.writes = Append(@, calls[i].group)]]
           \/ calls' = [calls EXCEPT ![i] =
                    [@ EXCEPT !.pc = "rejected", !.failed = "read", !.failedAt = calls[i].group]]
        /\ UNCHANGED <<settings, lastMetadataValues, vault>>

\* Mutant of ModifySettles: the write-back is checked against the document,
\* and when the text is no longer the one that was read the rewrite is applied
\* to the text the document holds now.
ModifySettles_RewritesCurrentText ==
    \E i \in 1..Len(calls) :
        /\ NoPromiseJobPending
        /\ calls[i].pc = "modify"
        /\ \/ LET call == calls[i]
                  group == settings.headerGroups[call.group]
                  cache == CacheSet(lastMetadataValues, Key(call.file, group.watchedField),
                                    call.currentValue)
              IN /\ vault' = [vault EXCEPT ![call.file] =
                        IF @ = call.fileContent
                        THEN call.updatedContent
                        ELSE replaceHeaderWithMetadataValue(@, group.header, call.currentValue)]
                 /\ lastMetadataValues' = cache
                 /\ calls' = [calls EXCEPT ![i] = HeaderLoop(call, call.group + 1, cache)]
           \/ /\ calls' = [calls EXCEPT ![i] =
                    [@ EXCEPT !.pc = "rejected", !.failed = "modify", !.failedAt = calls[i].group]]
              /\ UNCHANGED <<lastMetadataValues, vault>>
        /\ UNCHANGED settings

\* Mutant of ModifySettles: the assignment of line 71 is dropped, the text is
\* stored and the cache entry keeps its previous value.
ModifySettles_KeepsCache ==
    \E i \in 1..Len(calls) :
        /\ NoPromiseJobPending
        /\ calls[i].pc = "modify"
        /\ \/ LET call == calls[i]
              IN /\ vault' = [vault EXCEPT ![call.file] = call.updatedContent]
                 /\ calls' = [calls EXCEPT ![i] =
                                 HeaderLoop(call, call.group + 1, lastMetadataValues)]
           \/ /\ calls' = [calls EXCEPT ![i] =
                    [@ EXCEPT !.pc = "rejected", !.failed = "modify", !.failedAt = calls[i].group]]
              /\ UNCHANGED vault
        /\ UNCHANGED <<settings, lastMetadataValues>>

\* vault.modify settles (line 70): the text is stored, the cache entry is
\* overwritten (line 71) and the loop goes on to its next await; or the
\* rejection ends the handler.
ModifySettles ==
    \E i \in 1..Len(calls) :
        /\ NoPromiseJobPending
        /\ calls[i].pc = "modify"
        /\ \/ LET call == calls[i]
                  group == settings.headerGroups[call.group]
                  cache == CacheSet(lastMetadataValues, Key(call.file, group.watchedField),
                                    call.currentValue)
              IN /\ vault' = [vault EXCEPT ![call.file] = call.updatedContent]
                 /\ lastMetadataValues' = cache
                 /\ calls' = [calls EXCEPT ![i] = HeaderLoop(call, call.group + 1, cache)]
           \/ /\ calls' = [calls EXCEPT ![i] =
                    [@ EXCEPT !.pc = "rejected", !.failed = "modify", !.failedAt = calls[i].group]]
              /\ UNCHANGED <<lastMetadataValues, vault>>
        /\ UNCHANGED settings

\* processHeaderGroups' promise settles (line 57) and processCommandGroups
\* runs (line 58); it has no suspension point.
CommandPass ==
    \E i \in 1..Len(calls) :
        /\ calls[i].pc = "commands"
        /\ \E throwing \in SUBSET {settings.commandGroups[k].command :
                                     k \in 1..Len(settings.commandGroups)} :
            LET call == calls[i]
                r == processCommandGroups(call.file, call.metadata, lastMetadataValues, throwing)
            IN /\ lastMetadataValues' = r.cache
               /\ calls' = [calls EXCEPT ![i] =
                     [@ EXCEPT !.pc = IF r.thrownAt = 0 THEN "fulfilled" ELSE "rejected",
                               !.executed = r.executed,
                               !.failed = IF r.thrownAt = 0 THEN "none" ELSE "command",
                               !.failedAt = r.thrownAt]]
        /\ UNCHANGED <<settings, vault>>

\* The handler's promise settles towards the host.
Returns ==
    \E i \in 1..Len(calls) :
        /\ calls[i].pc \in {"fulfilled", "rejected"}
        /\ calls' = SubSeq(calls, 1, i - 1) \o SubSeq(calls, i + 1, Len(calls))
        /\ UNCHANGED <<settings, lastMetadataValues, vault>>

\* The host delivers notifications one at a time (section 5's assumption).
Next ==
    \/ onFileOpen(1)
    \/ onMetadataChanged(1)
    \/ ReadSettles
    \/ ModifySettles
    \/ CommandPass
    \/ Returns

Spec == Init /\ [][Next]_vars

\* ------------------------------------------------------------ properties

Finished(call) == call.pc \in {"fulfilled", "rejected"}

Count(seq, x) == Cardinality({n \in 1..Len(seq) : seq[n] = x})

\* A line starts with the literal header text.
StartsWith(line, header) ==
    Len(header) <= Len(line) /\ SubSeq(line, 1, Len(header)) = header

HasHeaderLine(content, header) == \E n \in 1..Len(content) : StartsWith(content[n], header)

FirstHeaderLine(content, header) ==
    CHOOSE n \in 1..Len(content) :
        /\ StartsWith(content[n], header)
        /\ \A m \in 1..(n - 1) : ~StartsWith(content[m], header)

\* C1.  Subsequent-change firing: in any configuration of rules, when the
\* cache entry of (d, f) holds A, an active Action Rule watches f and a
\* metadata-change notification for d reports f = B (truthy, B # A), the
\* dispatch invokes that rule's action exactly once and leaves the entry at B.
\* Stated for the dispatches that run to completion.
C1_SubsequentChangeFires ==
    \A i \in 1..Len(calls) :
        LET call == calls[i]
        IN (call.handler = "onMetadataChanged" /\ call.pc = "fulfilled") =>
            \A k \in 1..Len(settings.commandGroups) :
                LET group == settings.commandGroups[k]
                    key == Key(call.file, group.watchedField)
                    A == CacheGet(call.cache0, key)
                    B == Lookup(call.metadata, group.watchedField)
                IN (group.active /\ A # Undefined /\ Truthy(B) /\ B # A) =>
                       /\ Count(call.executed, k) = 1
                       /\ CacheGet(lastMetadataValues, key) = B

\* C2.  First-observation suppression: when (d, f) has no cache entry and a
\* metadata-change notification for d reports a truthy value for f, the
\* dispatch does not invoke the action of an active Action Rule watching f,
\* and after the dispatch the cache entry of (d, f) is that value.
C2_FirstObservationSuppressed ==
    \A i \in 1..Len(calls) :
        LET call == calls[i]
        IN (call.handler = "onMetadataChanged" /\ Finished(call)) =>
            \A k \in 1..Len(settings.commandGroups) :
                LET group == settings.commandGroups[k]
                    key == Key(call.file, group.watchedField)
                    B == Lookup(call.metadata, group.watchedField)
                IN (group.active /\ CacheGet(call.cache0, key) = Undefined /\ Truthy(B)) =>
                       /\ Count(call.executed, k) = 0
                       /\ CacheGet(lastMetadataValues, key) = B

\* What C2 leaves of itself on the code: the same statement for the dispatches
\* that run to completion.
C2_WhenFulfilled ==
    \A i \in 1..Len(calls) :
        LET call == calls[i]
        IN (call.handler = "onMetadataChanged" /\ call.pc = "fulfilled") =>
            \A k \in 1..Len(settings.commandGroups) :
                LET group == settings.commandGroups[k]
                    key == Key(call.file, group.watchedField)
                    B == Lookup(call.metadata, group.watchedField)
                IN (group.active /\ CacheGet(call.cache0, key) = Undefined /\ Truthy(B)) =>
                       /\ Count(call.executed, k) = 0
                       /\ CacheGet(lastMetadataValues, key) = B

\* The same rule configured alone, given the same snapshot and the same cache:
\* whether the code's header pass rewrites for it, and whether the code's
\* command pass invokes its command.
HeaderReactsAlone(group, path, metadata, cache) ==
    NextHeaderGroup(<<group>>, 1, path, metadata, cache) # 0

CommandReactsAlone(group, path, metadata, cache) ==
    CommandLoop(<<group>>, 1, path, metadata, cache, <<>>, {}).executed # <<>>

\* C3.  Rules are independent: whether a rule reacts in a dispatch (its
\* rewrite is performed, its action invoked) is decided by the rule's own
\* fields, the snapshot and the cache at the start of the dispatch, whatever
\* other rules are configured or were evaluated before it: the rule reacts in
\* the dispatch exactly when it reacts configured alone.  Stated for the
\* dispatches that run to completion.
C3_RulesIndependent ==
    \A i \in 1..Len(calls) :
        LET call == calls[i]
        IN (call.handler = "onMetadataChanged" /\ call.pc = "fulfilled" /\ call.metadata.present) =>
            /\ \A j \in 1..Len(settings.headerGroups) :
                   Count(call.writes, j) > 0
                       <=> HeaderReactsAlone(settings.headerGroups[j], call.file,
                                             call.metadata, call.cache0)
            /\ \A k \in 1..Len(settings.commandGroups) :
                   Count(call.executed, k) > 0
                       <=> CommandReactsAlone(settings.commandGroups[k], call.file,
                                              call.metadata, call.cache0)

AllGroups == settings.headerGroups \o settings.commandGroups

\* Every actively watched field that is truthy in the snapshot has the cached
\* value (a falsy or missing field is skipped whatever the cache holds).
Unchanged(path, metadata, cache) ==
    \A n \in 1..Len(AllGroups) :
        Watches(AllGroups[n], metadata) =>
            Lookup(metadata, AllGroups[n].watchedField)
                = CacheGet(cache, Key(path, AllGroups[n].watchedField))

C5_HeaderUpdatesFirstTime ==
    \A i \in 1..Len(calls) :
        LET call == calls[i]
        IN (call.handler = "onMetadataChanged" /\ call.pc = "fulfilled") =>
            \A j \in 1..Len(settings.headerGroups) :
                LET group == settings.headerGroups[j]
                    key == Key(call.file, group.watchedField)
                    v == Lookup(call.metadata, group.watchedField)
                IN (group.active /\ CacheGet(call.cache0, key) = Undefined /\ Truthy(v)) =>
                       /\ Count(call.writes, j) = 1
                       /\ HasHeaderLine(call.content0, group.header) =>
                              vault[call.file][FirstHeaderLine(call.content0, group.header)]
                                  = group.header \o <<" ">> \o ToText(v)
                       /\ CacheGet(lastMetadataValues, key) = v

\* The cache entries updateLastMetadataValues is to leave for `path`: the
\* snapshot value under the key of every active rule whose field is truthy,
\* the previous entry under every other key.
Reseeded(path, metadata, cache0, k) ==
    LET seen == {Lookup(metadata, AllGroups[n].watchedField) :
                    n \in {m \in 1..Len(AllGroups) :
                              /\ Watches(AllGroups[m], metadata)
                              /\ Key(path, AllGroups[m].watchedField) = k}}
    IN IF seen = {} THEN {CacheGet(cache0, k)} ELSE seen

\* C6.  Open reseeds the baseline silently: a document-open notification, in
\* any cache state, sets the cache entry of every active rule (Header or
\* Action) whose watched field is truthy in the snapshot to the snapshot
\* value, overwriting any previous value, leaves every other entry alone, and
\* calls neither vault.read, vault.modify nor a command.
C6_OpenReseedsSilently ==
    \A i \in 1..Len(calls) :
        LET call == calls[i]
        IN call.handler = "onFileOpen" =>
            /\ call.pc = "fulfilled"
            /\ call.reads = <<>> /\ call.writes = <<>> /\ call.executed = <<>>
            /\ vault[call.file] = call.content0
            /\ \A k \in (DOMAIN lastMetadataValues) \cup (DOMAIN call.cache0)
                          \cup {Key(call.file, AllGroups[n].watchedField) : n \in 1..Len(AllGroups)} :
                   Reseeded(call.file, call.metadata, call.cache0, k)
                       = {CacheGet(lastMetadataValues, k)}

\* An open that replaced the baseline of an active Action Rule's field by a
\* different value.
C6_Witness ==
    \E i \in 1..Len(calls) :
        LET call == calls[i]
        IN /\ call.handler = "onFileOpen"
           /\ \E k \in 1..Len(settings.commandGroups) :
                LET group == settings.commandGroups[k]
                    key == Key(call.file, group.watchedField)
                IN /\ Watches(group, call.metadata)
                   /\ CacheGet(call.cache0, key) # Undefined
                   /\ CacheGet(call.cache0, key) # Lookup(call.metadata, group.watchedField)
                   /\ CacheGet(lastMetadataValues, key) = Lookup(call.metadata, group.watchedField)

\* C7.  Header-not-found no-op: when a Header Rule's reaction runs on a text
\* that has no line starting with the configured header, the rewrite returns
\* the text unchanged and vault.modify is not called.
C7_HeaderNotFoundNoWrite ==
    \A i \in 1..Len(calls) :
        LET call == calls[i]
        IN (/\ call.handler = "onMetadataChanged"
            /\ call.pc = "modify"
            /\ ~HasHeaderLine(call.fileContent, settings.headerGroups[call.group].header)) =>
               /\ call.updatedContent = call.fileContent
               /\ Count(call.writes, call.group) = 0

\* C8.  Failure isolation: when one rule's reaction fails during a dispatch
\* (vault.read or vault.modify rejects, a command throws), the rules after it
\* are still evaluated: every active Action Rule after the failure whose field
\* is truthy has its cache entry at the snapshot value when the dispatch ends.
\* (After a throwing command, stated for the later rules that invoke nothing.)
C8_FailureIsolation ==
    \A i \in 1..Len(calls) :
        LET call == calls[i]
        IN (call.handler = "onMetadataChanged" /\ call.pc = "rejected") =>
            \A k \in 1..Len(settings.commandGroups) :
                LET group == settings.commandGroups[k]
                IN (/\ Watches(group, call.metadata)
                    /\ \/ call.failed \in {"read", "modify"}
                       \/ /\ call.failed = "command"
                          /\ k > call.failedAt
                          /\ ~CommandReactsAlone(group, call.file, call.metadata, call.cache0)) =>
                       CacheGet(lastMetadataValues, Key(call.file, group.watchedField))
                           = Lookup(call.metadata, group.watchedField)

\* C9.  No exception escapes the dispatcher: whatever vault.read, vault.modify
\* or a command reports, the handler's promise is never rejected.
C9_NoExceptionEscapes ==
    \A i \in 1..Len(calls) : calls[i].pc # "rejected"

\* Some active rule watches the field.
ActivelyWatched(field) ==
    \E n \in 1..Len(AllGroups) : AllGroups[n].active /\ AllGroups[n].watchedField = field

\* C10.  Inactive rule inert: a rule with active = false triggers no rewrite
\* and no action on any notification, and the cache entry of its field for a
\* document is written only when some active rule watches the same field: it
\* stays absent when none does.
C10_InactiveRuleInert ==
    /\ \A i \in 1..Len(calls) :
           /\ \A j \in 1..Len(settings.headerGroups) :
                  ~settings.headerGroups[j].active =>
                      Count(calls[i].reads, j) = 0 /\ Count(calls[i].writes, j) = 0
           /\ \A k \in 1..Len(settings.commandGroups) :
                  ~settings.commandGroups[k].active => Count(calls[i].executed, k) = 0
    /\ \A path \in Paths : \A n \in 1..Len(AllGroups) :
           (~AllGroups[n].active /\ ~ActivelyWatched(AllGroups[n].watchedField)) =>
               CacheGet(lastMetadataValues, Key(path, AllGroups[n].watchedField)) = Undefined

\* What C10 leaves of itself on the code: a notification for a document does
\* not touch that document's entry of a field that only inactive rules watch.
C10_WithinNotification ==
    \A i \in 1..Len(calls) : \A n \in 1..Len(AllGroups) :
        (~AllGroups[n].active /\ ~ActivelyWatched(AllGroups[n].watchedField)) =>
            CacheGet(lastMetadataValues, Key(calls[i].file, AllGroups[n].watchedField))
                = CacheGet(calls[i].cache0, Key(calls[i].file, AllGroups[n].watchedField))

\* C11.  Empty watched field never matches: a rule with watchedField = "" is
\* skipped on every open and change notification, for every snapshot (also one
\* that has the empty string as a key with a truthy value) and for either
\* value of its active flag: no vault.read, vault.modify or command is called
\* for it and no cache entry is written under its key.
C11_EmptyFieldNeverMatches ==
    /\ \A i \in 1..Len(calls) :
           /\ \A j \in 1..Len(settings.headerGroups) :
                  settings.headerGroups[j].watchedField = F0 =>
                      Count(calls[i].reads, j) = 0 /\ Count(calls[i].writes, j) = 0
           /\ \A k \in 1..Len(settings.commandGroups) :
                  settings.commandGroups[k].watchedField = F0 =>
                      Count(calls[i].executed, k) = 0
    /\ \A path \in Paths : CacheGet(lastMetadataValues, Key(path, F0)) = Undefined

\* What C11 leaves of itself on the code: an inactive rule with an empty
\* watched field, and any such rule given a snapshot without a truthy value
\* under the empty key, reacts to nothing and leaves its cache entry alone.
C11_WithoutEmptyKey ==
    \A i \in 1..Len(calls) :
        LET call == calls[i]
        IN (~ActivelyWatched(F0) \/ ~Truthy(Lookup(call.metadata, F0))) =>
            /\ \A j \in 1..Len(settings.headerGroups) :
                   settings.headerGroups[j].watchedField = F0 =>
                       Count(call.reads, j) = 0 /\ Count(call.writes, j) = 0
            /\ \A k \in 1..Len(settings.commandGroups) :
                   settings.commandGroups[k].watchedField = F0 => Count(call.executed, k) = 0
            /\ CacheGet(lastMetadataValues, Key(call.file, F0))
                   = CacheGet(call.cache0, Key(call.file, F0))

\* C12.  Missing metadata: a metadata-change or open notification for a
\* document whose snapshot is absent does no work: the handler ends at once
\* without evaluating a rule, calls neither vault.read, vault.modify nor a
\* command, and leaves the whole cache and the document as they were.
C12_MissingMetadataNoWork ==
    \A i \in 1..Len(calls) :
        LET call == calls[i]
        IN ~call.metadata.present =>
            /\ call.pc = "fulfilled"
            /\ call.group = 0
            /\ call.reads = <<>> /\ call.writes = <<>> /\ call.executed = <<>>
            /\ lastMetadataValues = call.cache0
            /\ vault[call.file] = call.content0

\* A change notification without a snapshot, delivered when active rules of
\* both kinds are configured and the cache holds a baseline for the document.
C12_Witness ==
    \E i \in 1..Len(calls) :
        LET call == calls[i]
        IN /\ call.handler = "onMetadataChanged"
           /\ ~call.metadata.present
           /\ \E j \in 1..Len(settings.headerGroups) :
                /\ settings.headerGroups[j].active
                /\ CacheGet(call.cache0, Key(call.file, settings.headerGroups[j].watchedField))
                       # Undefined
           /\ \E k \in 1..Len(settings.commandGroups) : settings.commandGroups[k].active

\* C13.  Cache keys do not collide: two distinct (document path, watched
\* field) pairs never share a cache entry, so a notification for document d
\* changes only the baselines of d's own fields that it observed (actively
\* watched and truthy in its snapshot): the baseline of every other pair, of a
\* different document or a different field, is as the notification found it.
C13_KeysDoNotCollide ==
    \A i \in 1..Len(calls) :
        LET call == calls[i]
        IN \A path \in Paths : \A field \in WatchedFields :
            (\/ path # call.file
             \/ ~(ActivelyWatched(field) /\ Truthy(Lookup(call.metadata, field)))) =>
                CacheGet(lastMetadataValues, Key(path, field))
                    = CacheGet(call.cache0, Key(path, field))

\* What C13 leaves of itself on the code: a notification changes only cache
\* entries stored under the concatenated keys of its own document's observed
\* fields.
C13_OwnKeysOnly ==
    \A i \in 1..Len(calls) :
        LET call == calls[i]
            own == {Key(call.file, field) :
                       field \in {f \in WatchedFields :
                                     ActivelyWatched(f) /\ Truthy(Lookup(call.metadata, f))}}
        IN \A k \in (DOMAIN lastMetadataValues) \cup (DOMAIN call.cache0) :
               k \notin own => CacheGet(lastMetadataValues, k) = CacheGet(call.cache0, k)

\* ------------------------------------------------- overlapping dispatches

\* The number of notifications the host delivers in one burst, without
\* waiting for the handlers' promises.
MaxInFlight == 2

\* The first line of a document after the user's edit.
EditedLine == <<"u">>

\* Another writer (the editor, a sync client, another plugin) stores a new
\* text of a document while a handler is between its vault.read and its
\* vault.modify (lines 68-70): the vault is the host's and the plugin holds
\* no lock on it.  (A write at any other time is seen by the next vault.read.)
ExternalWrite ==
    /\ \E p \in DOMAIN vault :
        /\ \E i \in 1..Len(calls) : calls[i].pc = "modify" /\ calls[i].file = p
        /\ vault[p][1] # EditedLine
        /\ vault' = [vault EXCEPT ![p] = [@ EXCEPT ![1] = EditedLine]]
    /\ UNCHANGED <<settings, lastMetadataValues, calls>>

\* The configurations explored in a burst: an Action Rule alone, and a Header
\* Rule and an Action Rule on the same field (as in DEFAULT_SETTINGS).
OverlapSettingsSet ==
    {[headerGroups |-> h, commandGroups |-> <<CommandGroup(F1, "cmd1", TRUE)>>] :
        h \in {<<>>, <<HeaderGroup(F1, H1, TRUE)>>}}

\* A burst starts with one document and a cache that is empty or was seeded
\* by an earlier open.
InitOverlap ==
    /\ settings \in OverlapSettingsSet
    /\ lastMetadataValues \in {EmptyCache,
                               CacheSet(EmptyCache, Key(P1, F1), Str(<<ValueNames[1]>>))}
    /\ vault = [p \in {P1} |-> ContentWith]
    /\ calls = <<>>

\* The host does not wait for a handler's promise before it delivers the next
\* notification: up to MaxInFlight invocations are suspended at their awaits
\* at once.  The invocations stay in `calls`, in the order of delivery.
NextOverlap ==
    \/ onMetadataChanged(MaxInFlight)
    \/ ReadSettles
    \/ ModifySettles
    \/ CommandPass
    \/ ExternalWrite

SpecOverlap == InitOverlap /\ [][NextOverlap]_vars

\* The invocation has had vault.modify called and fulfilled for a header group.
HasWritten(call) ==
    call.writes # <<>> /\ (call.pc \in {"commands", "fulfilled"} \/ call.failed = "command")

\* C14.  Lost-update race: vault.modify stores the text computed from the
\* handler's own vault.read, whatever the document holds by then and without
\* any comparison; so when overlapping notifications for the document are in
\* flight (or another writer stores a text) between that read and that write,
\* the write-back replaces the intervening text and the handler goes on as
\* after any write: the cache entry is set and the promise is not rejected.
C14_WriteBackUnchecked ==
    [][\A i \in 1..Len(calls) :
          (calls[i].pc = "modify" /\ calls'[i].pc \notin {"modify", "rejected"}) =>
              /\ vault'[calls[i].file] = calls[i].updatedContent
              /\ CacheGet(lastMetadataValues',
                          Key(calls[i].file,
                              settings.headerGroups[calls[i].group].watchedField))
                     = calls[i].currentValue]_vars

\* The race has happened: two dispatches for the same document read the same
\* text, both wrote, and the document holds the text of one of them, computed
\* from the read that preceded the other's write; the other's text is gone and
\* both handlers are fulfilled.
C14_Witness ==
    \E i, j \in 1..Len(calls) :
        /\ i # j /\ calls[i].file = calls[j].file
        /\ HasWritten(calls[i]) /\ HasWritten(calls[j])
        /\ calls[i].pc = "fulfilled" /\ calls[j].pc = "fulfilled"
        /\ calls[i].fileContent = calls[j].fileContent
        /\ calls[i].updatedContent # calls[j].updatedContent
        /\ vault[calls[i].file] = calls[i].updatedContent

\* The same with another writer: a handler is about to write back a text
\* computed before the user's edit of the first line was stored.
C14_EditAboutToBeLost ==
    \E i \in 1..Len(calls) :
        /\ calls[i].pc = "modify"
        /\ vault[calls[i].file][1] = EditedLine
        /\ calls[i].updatedContent[1] # EditedLine

\* C15.  Baseline tracks the latest snapshot under overlap: when several
\* metadata-change dispatches for the same document were in flight at once
\* and all of them have run to completion, the cache entry of every actively
\* watched field that is truthy in the most recently delivered snapshot equals
\* that snapshot's value, not the value of an older snapshot whose dispatch
\* finished later.
C15_BaselineTracksLatest ==
    (/\ Len(calls) >= 2
     /\ \A i \in 1..Len(calls) :
            /\ calls[i].handler = "onMetadataChanged"
            /\ calls[i].pc = "fulfilled"
            /\ calls[i].file = calls[Len(calls)].file) =>
        LET latest == calls[Len(calls)]
        IN \A n \in 1..Len(AllGroups) :
               Watches(AllGroups[n], latest.metadata) =>
                   CacheGet(lastMetadataValues, Key(latest.file, AllGroups[n].watchedField))
                       = Lookup(latest.metadata, AllGroups[n].watchedField)

\* C16.  Header reaction ordering and failure: with notifications processed
\* serially, the cache entry of (d, f) is overwritten with the current value
\* only after vault.modify has completed: while the handler awaits vault.read
\* or vault.modify for a header group the entry still has its previous value
\* (or is absent), and it has the current value once the write has completed.
\* If vault.read or vault.modify fails the entry keeps its previous value and
\* the document is as it was, so the next notification with the same snapshot
\* finds the same group due and rewrites again.
C16_CacheAfterWrite ==
    \A i \in 1..Len(calls) :
        LET call == calls[i]
            KeyOf(j) == Key(call.file, settings.headerGroups[j].watchedField)
        IN call.handler = "onMetadataChanged" =>
            /\ call.pc \in {"read", "modify"} =>
                   /\ CacheGet(lastMetadataValues, KeyOf(call.group))
                          = CacheGet(call.cache0, KeyOf(call.group))
                   /\ CacheGet(lastMetadataValues, KeyOf(call.group)) # call.currentValue
            /\ call.pc \in {"commands", "fulfilled"} =>
                   \A n \in 1..Len(call.writes) :
                       CacheGet(lastMetadataValues, KeyOf(call.writes[n]))
                           = Lookup(call.metadata,
                                    settings.headerGroups[call.writes[n]].watchedField)
            /\ call.failed \in {"read", "modify"} =>
                   /\ CacheGet(lastMetadataValues, KeyOf(call.failedAt))
                          = CacheGet(call.cache0, KeyOf(call.failedAt))
                   /\ NextHeaderGroup(settings.headerGroups, call.failedAt, call.file,
                                      call.metadata, lastMetadataValues) = call.failedAt
                   /\ HeaderLoop(NewCall("onMetadataChanged", call.file, call.metadata),
                                 1, lastMetadataValues).pc = "read"

\* vault.modify failed for a header group whose field had a baseline: the
\* baseline is still the previous value.
C16_Witness ==
    \E i \in 1..Len(calls) :
        LET call == calls[i]
        IN /\ call.failed = "modify"
           /\ CacheGet(call.cache0,
                       Key(call.file, settings.headerGroups[call.failedAt].watchedField))
                  # Undefined
           /\ CacheGet(lastMetadataValues,
                       Key(call.file, settings.headerGroups[call.failedAt].watchedField))
                  # call.currentValue

\* The value the snapshot of an invocation has for the field of command group k.
ValueSeen(call, k) == Lookup(call.metadata, settings.commandGroups[k].watchedField)

\* C17.  Falsy or missing field is skipped: a notification whose snapshot has
\* no truthy value for a rule's watched field (missing, empty string, zero)
\* causes no reaction of that rule and leaves its cache entry unchanged; hence
\* for a baseline A, a notification without the field followed by one with
\* f = A triggers no reaction, while a notification without the field followed
\* by one with f = B (B # A) invokes the Action Rule's command on the last
\* notification.  Stated for two notifications that ran to completion.
C17_FalsySkippedBaselineKept ==
    \A k \in 1..Len(settings.commandGroups) :
        LET key == Key(P1, settings.commandGroups[k].watchedField)
            A == CacheGet(calls[1].cache0, key)
        IN /\ (\A i \in 1..Len(calls) : ~Truthy(ValueSeen(calls[i], k))) =>
                  /\ \A i \in 1..Len(calls) :
                         calls[i].reads = <<>> /\ calls[i].writes = <<>> /\ calls[i].executed = <<>>
                  /\ Len(calls) > 0 => CacheGet(lastMetadataValues, key) = A
           /\ (/\ Len(calls) = 2
               /\ calls[1].pc = "fulfilled" /\ calls[2].pc = "fulfilled"
               /\ A # Undefined
               /\ ~Truthy(ValueSeen(calls[1], k))
               /\ Truthy(ValueSeen(calls[2], k))) =>
                  /\ calls[1].executed = <<>>
                  /\ ValueSeen(calls[2], k) = A =>
                         calls[2].writes = <<>> /\ calls[2].executed = <<>>
                  /\ ValueSeen(calls[2], k) # A => calls[2].executed = <<k>>

\* What C17 leaves of itself on the code: with notifications processed
\* serially, on a change or an open notification a rule whose watched field is
\* missing or falsy in the snapshot calls nothing and its cache entry for the
\* document is as the notification found it.
C17_FalsySkipped ==
    \A i \in 1..Len(calls) :
        LET call == calls[i]
        IN /\ \A j \in 1..Len(settings.headerGroups) :
                  ~Truthy(Lookup(call.metadata, settings.headerGroups[j].watchedField)) =>
                      /\ Count(call.reads, j) = 0 /\ Count(call.writes, j) = 0
                      /\ CacheGet(lastMetadataValues,
                                  Key(call.file, settings.headerGroups[j].watchedField))
                             = CacheGet(call.cache0,
                                        Key(call.file, settings.headerGroups[j].watchedField))
           /\ \A k \in 1..Len(settings.commandGroups) :
                  ~Truthy(ValueSeen(call, k)) =>
                      /\ Count(call.executed, k) = 0
                      /\ CacheGet(lastMetadataValues,
                                  Key(call.file, settings.commandGroups[k].watchedField))
                             = CacheGet(call.cache0,
                                        Key(call.file, settings.commandGroups[k].watchedField))

\* And the sequence fires the command when no Header Rule is configured.
C17_SequenceWithoutHeaderRule ==
    (/\ settings.headerGroups = <<>>
     /\ Len(calls) = 2
     /\ calls[1].pc = "fulfilled" /\ calls[2].pc = "fulfilled"
     /\ CacheGet(calls[1].cache0, Key(P1, F1)) # Undefined
     /\ ~Truthy(ValueSeen(calls[1], 1))
     /\ Truthy(ValueSeen(calls[2], 1))) =>
        /\ calls[1].executed = <<>>
        /\ calls[2].executed
              = IF ValueSeen(calls[2], 1) = CacheGet(calls[1].cache0, Key(P1, F1))
                THEN <<>> ELSE <<1>>

\* C18.  Post-dispatch cache state: with notifications processed serially,
\* after a metadata-change dispatch with a present snapshot has run to
\* completion without a failure, the cache entry of (document, field) equals
\* the snapshot value for every active rule (Header or Action) whose watched
\* field is truthy in the snapshot, and every other cache entry is as the
\* dispatch found it.
C18_PostDispatchCache ==
    \A i \in 1..Len(calls) :
        LET call == calls[i]
        IN (call.handler = "onMetadataChanged" /\ call.metadata.present /\ call.pc = "fulfilled") =>
            \A k \in (DOMAIN lastMetadataValues) \cup (DOMAIN call.cache0)
                        \cup {Key(call.file, AllGroups[n].watchedField) : n \in 1..Len(AllGroups)} :
                Reseeded(call.file, call.metadata, call.cache0, k)
                    = {CacheGet(lastMetadataValues, k)}

\* A completed dispatch that rewrote a header, set the first baseline of an
\* Action Rule's field, and found an entry it had no rule to touch.
C18_Witness ==
    \E i \in 1..Len(calls) :
        LET call == calls[i]
        IN /\ call.handler = "onMetadataChanged" /\ call.pc = "fulfilled"
           /\ call.writes # <<>>
           /\ \E k \in 1..Len(settings.commandGroups) :
                /\ Watches(settings.commandGroups[k], call.metadata)
                /\ CacheGet(call.cache0, Key(call.file, settings.commandGroups[k].watchedField))
                       = Undefined
           /\ \E key \in DOMAIN call.cache0 :
                /\ \A n \in 1..Len(AllGroups) : key # Key(call.file, AllGroups[n].watchedField)
                /\ lastMetadataValues[key] = call.cache0[key]

\* The sequence of group indices is in configuration order.
Ascending(seq) == \A m, n \in 1..Len(seq) : m < n => seq[m] < seq[n]

\* C19.  Pass ordering: within one metadata-change dispatch the Header Rules
\* are processed in configuration order, one rewrite at a time (the read and
\* the write of a rewrite are completed before the next group is looked at),
\* and all of them before any Action Rule is evaluated: when the command pass
\* is about to run no header group is due any more, and until then no command
\* has been invoked and no cache entry written except by the completed header
\* writes.  The Action Rules are then evaluated in configuration order.
C19_PassOrdering ==
    \A i \in 1..Len(calls) :
        LET call == calls[i]
            written == {Key(call.file, settings.headerGroups[call.writes[n]].watchedField) :
                           n \in 1..Len(call.writes)}
        IN call.handler = "onMetadataChanged" =>
            /\ Ascending(call.reads) /\ Ascending(call.writes) /\ Ascending(call.executed)
            /\ call.pc = "read" =>
                   call.reads = Append(call.writes, call.group)
            /\ call.pc = "modify" =>
                   call.reads = call.writes /\ call.writes[Len(call.writes)] = call.group
            /\ (call.pc \in {"read", "modify", "commands"} \/ call.failed \in {"read", "modify"}) =>
                   /\ call.executed = <<>>
                   /\ \A k \in (DOMAIN lastMetadataValues) \cup (DOMAIN call.cache0) :
                          k \notin written =>
                              CacheGet(lastMetadataValues, k) = CacheGet(call.cache0, k)
            /\ (call.pc \in {"commands", "fulfilled"} \/ call.failed = "command") =>
                   /\ call.reads = call.writes
                   /\ call.metadata.present =>
                          NextHeaderGroup(settings.headerGroups, 1, call.file, call.metadata,
                                          lastMetadataValues) = 0

\* A dispatch that rewrote for a Header Rule and then invoked an Action Rule's
\* command.
C19_Witness ==
    \E i \in 1..Len(calls) :
        /\ calls[i].pc = "fulfilled"
        /\ calls[i].writes # <<>>
        /\ calls[i].executed # <<>>

\* A dispatch that rewrote for two Header Rules, in configuration order.
C19_TwoRewrites ==
    \E i \in 1..Len(calls) : calls[i].pc = "commands" /\ calls[i].writes = <<1, 2>>

\* ------------------------------------------------------ the rewrite alone

\* Headers given as literal text: the default header (empty), "#", H1.
RewriteHeaders == {<<>>, <<"#">>, H1}

\* Texts with no header line, one, several, and with an empty line.
RewriteContents ==
    {ContentWithout, ContentWith, << H1 >>, << <<>>, <<"#">>, H1 \o <<"x">> >>}

\* One Header Rule with a literal header, on a field whose values include the
\* strings with a "$", and one document with any of the texts.
InitRewrite ==
    /\ settings \in {[headerGroups |-> <<HeaderGroup(F3, h, TRUE)>>, commandGroups |-> <<>>] :
                        h \in RewriteHeaders}
    /\ lastMetadataValues = EmptyCache
    /\ vault \in {[p \in {P1} |-> c] : c \in RewriteContents}
    /\ calls = <<>>

SpecRewrite == InitRewrite /\ [][Next]_vars

\* The rewrite of `content` for `header` and value `v` changed exactly the
\* first line that starts with the header, into "<header> <v>".
OneLineRewritten(content, header, v, updated) ==
    /\ Len(updated) = Len(content)
    /\ IF HasHeaderLine(content, header)
       THEN LET n == FirstHeaderLine(content, header)
            IN /\ updated[n] = header \o <<" ">> \o ToText(v)
               /\ \A m \in 1..Len(content) : m # n => updated[m] = content[m]
       ELSE updated = content

\* C20.  Rewrite changes exactly one line: for a header given as literal text,
\* replaceHeaderWithMetadataValue replaces only the first line of the content
\* that starts with the header, the new line is exactly "<header> <value>"
\* (what followed the header on that line is discarded), and every other
\* line, later lines that start with the header included, is unchanged and in
\* its place.
C20_RewriteOneLine ==
    \A i \in 1..Len(calls) :
        calls[i].pc = "modify" =>
            OneLineRewritten(calls[i].fileContent, settings.headerGroups[calls[i].group].header,
                             calls[i].currentValue, calls[i].updatedContent)

\* What C20 leaves of itself on the code: the same for a value without "$".
C20_WithoutDollar ==
    \A i \in 1..Len(calls) :
        (calls[i].pc = "modify" /\ calls[i].currentValue \notin DollarValues) =>
            OneLineRewritten(calls[i].fileContent, settings.headerGroups[calls[i].group].header,
                             calls[i].currentValue, calls[i].updatedContent)

\* And for any value, the lines other than the first header line are unchanged.
C20_OtherLinesKept ==
    \A i \in 1..Len(calls) :
        calls[i].pc = "modify" =>
            LET content == calls[i].fileContent
                header == settings.headerGroups[calls[i].group].header
            IN /\ Len(calls[i].updatedContent) = Len(content)
               /\ \A m \in 1..Len(content) :
                      (~HasHeaderLine(content, header) \/ m # FirstHeaderLine(content, header)) =>
                          calls[i].updatedContent[m] = content[m]

\* Two dispatches for the same document carrying the same snapshot, in which
\* the field of command group k has a truthy value that differs from the
\* baseline the first of them found.
SameChangeTwice(k) ==
    /\ Len(calls) = 2
    /\ calls[1].file = calls[2].file
    /\ calls[1].metadata = calls[2].metadata
    /\ Truthy(ValueSeen(calls[1], k))
    /\ CacheGet(calls[1].cache0, Key(calls[1].file, settings.commandGroups[k].watchedField))
           \notin {Undefined, ValueSeen(calls[1], k)}

\* C21.  Action fires at most once per delivered change, even under overlap:
\* when two dispatches for the same document carry the same snapshot (f = B,
\* cache A, B # A), the command of an Action Rule watching f is invoked by at
\* most one of them, however their steps interleave.
C21_ActionAtMostOnce ==
    \A k \in 1..Len(settings.commandGroups) :
        SameChangeTwice(k) =>
            ~(Count(calls[1].executed, k) > 0 /\ Count(calls[2].executed, k) > 0)

\* What C21 leaves of itself on the code: the same when no invocation throws.
C21_WhenNothingThrows ==
    \A k \in 1..Len(settings.commandGroups) :
        (SameChangeTwice(k) /\ calls[1].failed # "command" /\ calls[2].failed # "command") =>
            /\ ~(Count(calls[1].executed, k) > 0 /\ Count(calls[2].executed, k) > 0)
            /\ Count(calls[1].executed, k) <= 1 /\ Count(calls[2].executed, k) <= 1

\* The two dispatches overlap: both are suspended before their command pass.
C21_BothSuspended ==
    \E k \in 1..Len(settings.commandGroups) :
        SameChangeTwice(k) /\ calls[1].pc = "commands" /\ calls[2].pc = "commands"

\* ------------------------------------------------------ rewrite feedback

\* Cap on the notifications of one feedback chain.
MaxNotifications == 4

\* The vault.modify calls of an invocation that were fulfilled.
CompletedWrites(call) ==
    IF call.pc = "modify" \/ call.failed = "modify"
    THEN Len(call.writes) - 1
    ELSE Len(call.writes)

RECURSIVE TotalWrites(_)
TotalWrites(n) == IF n = 0 THEN 0 ELSE TotalWrites(n - 1) + CompletedWrites(calls[n])

\* The notifications the host still owes: one per document write made by a
\* header rewrite, less the follow-up notifications already delivered (the
\* first notification is the user's change).
Owed == TotalWrites(Len(calls)) - (Len(calls) - 1)

\* The metadata cache re-parses the document after a write and triggers
\* "changed" again with the same front matter (line 27 registers the handler
\* for every such event); it is delivered when the previous handler is done.
FeedbackNotification ==
    /\ Len(calls) >= 1 /\ Len(calls) < MaxNotifications
    /\ \A i \in 1..Len(calls) : Finished(calls[i])
    /\ Owed > 0
    /\ calls' = Append(calls, HeaderLoop(NewCall("onMetadataChanged", calls[1].file,
                                                 calls[1].metadata),
                                         1, lastMetadataValues))
    /\ UNCHANGED <<settings, lastMetadataValues, vault>>

\* One document, any configuration, and a cache that is empty or was seeded
\* by an earlier open of the document.
InitFeedback ==
    /\ settings \in SettingsSet
    /\ lastMetadataValues \in {updateLastMetadataValues(P1, m, EmptyCache) : m \in Snapshots}
    /\ vault = [p \in {P1} |-> ContentWith]
    /\ calls = <<>>

\* One change of the front matter, and the notifications its writes cause.
NextFeedback ==
    \/ onMetadataChanged(1)
    \/ FeedbackNotification
    \/ ReadSettles
    \/ ModifySettles
    \/ CommandPass

\* vault.read, vault.modify and the promise jobs settle, and the host
\* delivers what it owes.
SpecFeedback ==
    /\ InitFeedback
    /\ [][NextFeedback]_vars
    /\ WF_vars(FeedbackNotification)
    /\ WF_vars(ReadSettles)
    /\ WF_vars(ModifySettles)
    /\ WF_vars(CommandPass)

\* The chain has ended: the change was delivered, every handler is done and
\* the host owes no notification.
Quiescent ==
    /\ Len(calls) >= 1
    /\ \A i \in 1..Len(calls) : Finished(calls[i])
    /\ Owed = 0

\* C22.  Rewrite feedback terminates: when every document write made by a
\* header rewrite makes the host deliver one further metadata-change
\* notification with the same metadata, and notifications are processed
\* serially, a single change of the front matter is followed by finitely many
\* document writes (at most one per Header Rule, so the cap on notifications
\* is never what stops the chain), a follow-up notification finds the cache
\* equal to the snapshot and writes nothing unless a read or write failed
\* before it, and the system reaches a state with no pending notification.
C22_FeedbackTerminates ==
    /\ [](/\ TotalWrites(Len(calls)) <= Len(settings.headerGroups)
          /\ Owed > 0 => Len(calls) < MaxNotifications
          /\ \A i \in 2..Len(calls) :
                 (\A j \in 1..(i - 1) : calls[j].failed \notin {"read", "modify"}) =>
                     calls[i].reads = <<>> /\ calls[i].writes = <<>>)
    /\ ((Len(calls) >= 1) ~> Quiescent)

\* A chain that ended after a rewrite: the change made the header pass write
\* the document, the follow-up notification was delivered and wrote nothing.
C22_Witness ==
    /\ Quiescent
    /\ Len(calls) = 2
    /\ calls[1].writes # <<>> /\ calls[1].pc = "fulfilled"
    /\ calls[2].writes = <<>> /\ calls[2].pc = "fulfilled"

\* ------------------------------------------------- one rewrite, repeated

\* One Header Rule with a literal header, on a field whose values include
\* every modelled "$" pattern, and one document with any of the texts.
InitOnce ==
    /\ settings \in {[headerGroups |-> <<HeaderGroup(F4, h, TRUE)>>, commandGroups |-> <<>>] :
                        h \in RewriteHeaders}
    /\ lastMetadataValues = EmptyCache
    /\ vault \in {[p \in {P1} |-> c] : c \in RewriteContents}
    /\ calls = <<>>

\* One metadata-change notification and its dispatch.
NextOnce ==
    \/ onMetadataChanged(1)
    \/ ReadSettles
    \/ ModifySettles
    \/ CommandPass

SpecOnce == InitOnce /\ [][NextOnce]_vars

\* C23.  Rewrite is idempotent: for a header given as literal text and any
\* content and value v, the text replaceHeaderWithMetadataValue returned and
\* the handler stored is a fixed point of the rewrite with the same header
\* and v: applying it a second time gives the same text, so a duplicated
\* rewrite of the same value does not change the document further.
C23_RewriteIdempotent ==
    \A i \in 1..Len(calls) :
        HasWritten(calls[i]) =>
            replaceHeaderWithMetadataValue(calls[i].updatedContent,
                                           settings.headerGroups[1].header,
                                           Lookup(calls[i].metadata, F4))
                = calls[i].updatedContent

\* What C23 leaves of itself on the code: the same for a value without a
\* pattern that stands for text of the matched line.
C23_WithoutMatchPattern ==
    \A i \in 1..Len(calls) :
        (HasWritten(calls[i]) /\ Lookup(calls[i].metadata, F4) \notin MatchValues) =>
            replaceHeaderWithMetadataValue(calls[i].updatedContent,
                                           settings.headerGroups[1].header,
                                           Lookup(calls[i].metadata, F4))
                = calls[i].updatedContent

\* ------------------------------------------------------ settings edits

\* Number of notifications whose dispatches are kept, in order of delivery.
MaxDispatches == 2

\* Longest rule list the settings tab is taken to.
MaxGroups == 1

\* Every handler invocation has ended.
NoDispatchInFlight == \A i \in 1..Len(calls) : Finished(calls[i])

\* The user edits the settings between two notifications.
BetweenNotifications == NoDispatchInFlight /\ Len(calls) < MaxDispatches

RemoveAt(groups, n) == SubSeq(groups, 1, n - 1) \o SubSeq(groups, n + 1, Len(groups))

\* "Add header group" (lines 229-233) and "Add command group" (lines 255-259).
AddGroup ==
    /\ BetweenNotifications
    /\ \/ /\ Len(settings.headerGroups) < MaxGroups
          /\ settings' = [settings EXCEPT !.headerGroups = Append(@, HeaderGroup(F0, <<>>, TRUE))]
       \/ /\ Len(settings.commandGroups) < MaxGroups
          /\ settings' = [settings EXCEPT !.commandGroups = Append(@, CommandGroup(F0, "", TRUE))]
    /\ UNCHANGED <<lastMetadataValues, vault, calls>>

\* The field-name text box (lines 279 and 318): a key is typed or deleted.
SetWatchedField ==
    /\ BetweenNotifications
    /\ \/ \E j \in 1..Len(settings.headerGroups) : \E f \in {F0, F1} :
            /\ f # settings.headerGroups[j].watchedField
            /\ settings' = [settings EXCEPT !.headerGroups[j].watchedField = f]
       \/ \E k \in 1..Len(settings.commandGroups) : \E f \in {F0, F1} :
            /\ f # settings.commandGroups[k].watchedField
            /\ settings' = [settings EXCEPT !.commandGroups[k].watchedField = f]
    /\ UNCHANGED <<lastMetadataValues, vault, calls>>

\* The active toggle (lines 292-293 and 332-333).
ToggleActive ==
    /\ BetweenNotifications
    /\ \/ \E j \in 1..Len(settings.headerGroups) :
            settings' = [settings EXCEPT !.headerGroups[j].active = ~@]
       \/ \E k \in 1..Len(settings.commandGroups) :
            settings' = [settings EXCEPT !.commandGroups[k].active = ~@]
    /\ UNCHANGED <<lastMetadataValues, vault, calls>>

\* "Remove group" (lines 299 and 339).
RemoveGroup ==
    /\ BetweenNotifications
    /\ \/ \E j \in 1..Len(settings.headerGroups) :
            settings' = [settings EXCEPT !.headerGroups = RemoveAt(@, j)]
       \/ \E k \in 1..Len(settings.commandGroups) :
            settings' = [settings EXCEPT !.commandGroups = RemoveAt(@, k)]
    /\ UNCHANGED <<lastMetadataValues, vault, calls>>

\* The next notification is delivered when the previous handler is done.
SerialChange == NoDispatchInFlight /\ onMetadataChanged(MaxDispatches)

\* One document, at most one rule of each kind on the field F1, active or
\* not, and a cache that is empty or has the field's baseline.
InitConfig ==
    /\ settings \in {[headerGroups |-> h, commandGroups |-> c] :
                        h \in {<<>>} \cup {<<HeaderGroup(F1, H1, a)>> : a \in BOOLEAN},
                        c \in {<<>>} \cup {<<CommandGroup(F1, "cmd1", a)>> : a \in BOOLEAN}}
    /\ lastMetadataValues \in {EmptyCache,
                               CacheSet(EmptyCache, Key(P1, F1), Str(<<ValueNames[1]>>))}
    /\ vault = [p \in {P1} |-> ContentWith]
    /\ calls = <<>>

NextConfig ==
    \/ SerialChange
    \/ ReadSettles
    \/ ModifySettles
    \/ CommandPass
    \/ AddGroup
    \/ SetWatchedField
    \/ ToggleActive
    \/ RemoveGroup

SpecConfig == InitConfig /\ [][NextConfig]_vars

\* The header pass of one fulfilled dispatch, computed from a configuration
\* and a cache: the cache it leaves and the groups it rewrites for.
RECURSIVE HeaderPass(_, _, _, _, _, _)
HeaderPass(groups, from, path, metadata, cache, done) ==
    LET j == NextHeaderGroup(groups, from, path, metadata, cache) IN
    IF j = 0
    THEN [cache |-> cache, writes |-> done]
    ELSE HeaderPass(groups, j + 1, path, metadata,
                    CacheSet(cache, Key(path, groups[j].watchedField),
                             Lookup(metadata, groups[j].watchedField)),
                    Append(done, j))

\* The history is full: the settings are those the last dispatch ran with.
LastDispatch == calls[Len(calls)]
PreviousDispatch == calls[Len(calls) - 1]

\* The field f went from a truthy cached value to another truthy value in the
\* previous notification, the cache was left alone, and the last
\* notification carries the same value.
ChangeLeftPending(f) ==
    /\ Len(calls) = MaxDispatches
    /\ PreviousDispatch.pc = "fulfilled"
    /\ LastDispatch.pc = "fulfilled"
    /\ LastDispatch.file = PreviousDispatch.file
    /\ Truthy(Lookup(PreviousDispatch.metadata, f))
    /\ Truthy(CacheGet(PreviousDispatch.cache0, Key(PreviousDispatch.file, f)))
    /\ CacheGet(PreviousDispatch.cache0, Key(PreviousDispatch.file, f))
         # Lookup(PreviousDispatch.metadata, f)
    /\ CacheGet(LastDispatch.cache0, Key(LastDispatch.file, f))
         = CacheGet(PreviousDispatch.cache0, Key(PreviousDispatch.file, f))
    /\ Lookup(LastDispatch.metadata, f) = Lookup(PreviousDispatch.metadata, f)

\* C24: a rule that is active at a notification, while its field's change
\* from A to B of the notification before was left out of the cache, reacts
\* to B at that notification: a Header Rule rewrites once and an Action
\* Rule invokes its command once.
C24_ReactivatedRuleReacts ==
    /\ \A j \in 1..Len(settings.headerGroups) :
          (settings.headerGroups[j].active
             /\ ChangeLeftPending(settings.headerGroups[j].watchedField))
            => Count(LastDispatch.writes, j) = 1
    /\ \A k \in 1..Len(settings.commandGroups) :
          (settings.commandGroups[k].active
             /\ ChangeLeftPending(settings.commandGroups[k].watchedField))
            => Count(LastDispatch.executed, k) = 1

\* What holds of C24: a fulfilled dispatch does what the configuration of
\* its own time prescribes against the cache of its own time, whatever was
\* added, removed or toggled before it.
C24_EvaluatedAsConfigured ==
    (Len(calls) = MaxDispatches /\ LastDispatch.pc = "fulfilled")
      => LET h == HeaderPass(settings.headerGroups, 1, LastDispatch.file,
                             LastDispatch.metadata, LastDispatch.cache0, <<>>)
             c == CommandLoop(settings.commandGroups, 1, LastDispatch.file,
                              LastDispatch.metadata, h.cache, <<>>, {})
         IN /\ LastDispatch.writes = h.writes
            /\ LastDispatch.executed = c.executed

\* What holds of C24: the re-activated Header Rule reacts, and so does the
\* re-activated Action Rule when no active Header Rule watches its field.
C24_WithoutHeaderRule ==
    /\ \A j \in 1..Len(settings.headerGroups) :
          (settings.headerGroups[j].active
             /\ ChangeLeftPending(settings.headerGroups[j].watchedField))
            => Count(LastDispatch.writes, j) = 1
    /\ \A k \in 1..Len(settings.commandGroups) :
          (/\ settings.commandGroups[k].active
           /\ ChangeLeftPending(settings.commandGroups[k].watchedField)
           /\ \A j \in 1..Len(settings.headerGroups) :
                 settings.headerGroups[j].active =>
                    settings.headerGroups[j].watchedField
                      # settings.commandGroups[k].watchedField)
            => Count(LastDispatch.executed, k) = 1

\* A change was left pending and the rule on its field is active again.
C24_Reactivated ==
    \E j \in 1..Len(settings.headerGroups) :
        /\ settings.headerGroups[j].active
        /\ ChangeLeftPending(settings.headerGroups[j].watchedField)
        /\ Count(LastDispatch.writes, j) = 1

\* ------------------------------------------------------------ start-up

\* The orders in which getMarkdownFiles can list the documents.
FileOrders == {<<P1, P2>>, <<P2, P1>>}

\* initializeLastMetadataValues (lines 32-37): updateLastMetadataValues on
\* each listed file in turn, with the frontmatter the metadata cache has for
\* it.  One record per file is kept; none reads, writes or runs a command.
RECURSIVE SeedFiles(_, _, _, _, _)
SeedFiles(files, metadataOf, n, cache, done) ==
    IF n > Len(files)
    THEN [cache |-> cache, calls |-> done]
    ELSE SeedFiles(files, metadataOf, n + 1,
                   updateLastMetadataValues(files[n], metadataOf[files[n]], cache),
                   Append(done, [NewCall("onload", files[n], metadataOf[files[n]])
                                    EXCEPT !.cache0 = cache]))

\* onload (lines 24-30).  The handlers are registered at lines 27-28 and the
\* seeding starts in the same turn at line 29; its awaits are on functions
\* without a suspension point, so no notification is handled before the
\* last file is seeded.
onload ==
    /\ calls = <<>>
    /\ \E files \in FileOrders, metadataOf \in [Paths -> Snapshots] :
          LET r == SeedFiles(files, metadataOf, 1, lastMetadataValues, <<>>) IN
          /\ lastMetadataValues' = r.cache
          /\ calls' = r.calls
    /\ UNCHANGED <<settings, vault>>

\* The first notification after loading.
FirstChange == calls # <<>> /\ onMetadataChanged(Cardinality(Paths) + 1)

NextLoad ==
    \/ onload
    \/ FirstChange
    \/ ReadSettles
    \/ ModifySettles
    \/ CommandPass

SpecLoad == Init /\ [][NextLoad]_vars

\* The records of the seeding, and the notification that follows it.
Loaded == Len(calls) >= Cardinality(Paths) /\ calls[1].handler = "onload"
Seeded(i) == calls[i]
FirstNotification == calls[Cardinality(Paths) + 1]

\* C25: when onload completes, the cache entry of every active rule's
\* truthy field equals the document's current value for every document, and
\* loading read, wrote and invoked nothing; the first later change of such a
\* field to a different truthy value invokes the Action Rule watching it.
C25_StartupSeeding ==
    Loaded =>
      /\ \A i \in 1..Cardinality(Paths) :
            /\ Seeded(i).reads = <<>> /\ Seeded(i).writes = <<>> /\ Seeded(i).executed = <<>>
            /\ Len(calls) = Cardinality(Paths)
                 => Unchanged(Seeded(i).file, Seeded(i).metadata, lastMetadataValues)
      /\ (Len(calls) > Cardinality(Paths) /\ Finished(FirstNotification)) =>
            \A i \in 1..Cardinality(Paths) : \A k \in 1..Len(settings.commandGroups) :
                LET f == settings.commandGroups[k].watchedField IN
                (/\ Seeded(i).file = FirstNotification.file
                 /\ Watches(settings.commandGroups[k], Seeded(i).metadata)
                 /\ Truthy(Lookup(FirstNotification.metadata, f))
                 /\ Lookup(FirstNotification.metadata, f) # Lookup(Seeded(i).metadata, f))
                  => Count(FirstNotification.executed, k) = 1

\* The key of (path, field) is the key of no other document's watched field.
OwnKey(path, field) ==
    \A p \in Paths : \A n \in 1..Len(AllGroups) :
        Key(p, AllGroups[n].watchedField) = Key(path, field)
          => p = path /\ AllGroups[n].watchedField = field

\* What holds of C25: loading reads, writes and invokes nothing, and seeds
\* every active rule's truthy field whose key no other document shares; the
\* first later change of such a field invokes the Action Rule when the
\* handler reaches the command pass and the rule is the first on its field.
C25_WithOwnKeys ==
    Loaded =>
      /\ \A i \in 1..Cardinality(Paths) :
            /\ Seeded(i).reads = <<>> /\ Seeded(i).writes = <<>> /\ Seeded(i).executed = <<>>
            /\ Len(calls) = Cardinality(Paths) =>
                  \A n \in 1..Len(AllGroups) :
                      (/\ Watches(AllGroups[n], Seeded(i).metadata)
                       /\ OwnKey(Seeded(i).file, AllGroups[n].watchedField))
                        => CacheGet(lastMetadataValues,
                                    Key(Seeded(i).file, AllGroups[n].watchedField))
                             = Lookup(Seeded(i).metadata, AllGroups[n].watchedField)
      /\ (Len(calls) > Cardinality(Paths) /\ Finished(FirstNotification)) =>
            \A i \in 1..Cardinality(Paths) : \A k \in 1..Len(settings.commandGroups) :
                LET f == settings.commandGroups[k].watchedField IN
                (/\ Seeded(i).file = FirstNotification.file
                 /\ Watches(settings.commandGroups[k], Seeded(i).metadata)
                 /\ Truthy(Lookup(FirstNotification.metadata, f))
                 /\ Lookup(FirstNotification.metadata, f) # Lookup(Seeded(i).metadata, f)
                 /\ OwnKey(Seeded(i).file, f)
                 /\ FirstNotification.failed \notin {"read", "modify"}
                 /\ \A n \in 1..(Len(settings.headerGroups) + k - 1) :
                       AllGroups[n].active => AllGroups[n].watchedField # f
                 /\ \A m \in 1..(k - 1) :
                       Count(FirstNotification.executed, m) = 0
                         \/ FirstNotification.failedAt # m)
                  => Count(FirstNotification.executed, k) = 1

\* The first change after loading invoked the seeded Action Rule.
C25_FirstChangeInvokes ==
    /\ Loaded /\ Len(calls) > Cardinality(Paths)
    /\ FirstNotification.pc = "fulfilled"
    /\ \E i \in 1..Cardinality(Paths) : \E k \in 1..Len(settings.commandGroups) :
          /\ Seeded(i).file = FirstNotification.file
          /\ Watches(settings.commandGroups[k], Seeded(i).metadata)
          /\ OwnKey(Seeded(i).file, settings.commandGroups[k].watchedField)
          /\ Count(FirstNotification.executed, k) = 1

====
